---- MODULE Spec2Model ----
(***************************************************************************)
(* simple-video-tags (src/main.rs): a content-addressed tag store for      *)
(* video files.  The model covers the file system the program reads and    *)
(* writes (directories, media files, the .hashes.json sidecars and         *)
(* tags.json), the fields of App, and one action per kind of frame of      *)
(* App::update, i.e. one user event followed by the rest of the frame.     *)
(* A Rust panic (unwrap/expect/index out of range) ends the process: the   *)
(* model moves to pc = "panicked" with the fields as they were at the      *)
(* panicking expression.                                                   *)
(***************************************************************************)
EXTENDS Integers, Sequences, FiniteSets, Bags, TLC

\* ------------------------------------------------------------ bounds
\* number of changes the environment makes to the file system
MaxEnv == 1
\* number of folder picks
MaxLoads == 2
\* number of clicks on tag checkboxes
MaxTagClicks == 1
\* longest filtered sequence the Prev/Next arithmetic is iterated over
MaxCycle == 4

\* ------------------------------------------------------------ universe
\* paths of directories; at d5 there is none to begin with
Dirs == {"d1", "d2", "d3", "d4", "d5"}
\* the file the environment changes
ChangedDirs == {"d1"}
\* the directories the environment moves, and where to
MovedDirs == {"d1", "d2"}
NewDirs == {"d5"}
ChangedNames == {<<"a", "mp4">>}
\* file names as <<stem, extension>>
MediaNames == {<<"a", "mp4">>, <<"b", "webm">>}
FileNames == MediaNames \cup {<<"notes", "txt">>}
Bytes == {"x", "y"}
TagNames == {"funny", "loud"}

\* Option<T>
None == <<>>
Some(x) == <<x>>

Range(s) == {s[i] : i \in DOMAIN s}
Perms(S) == {s \in [1..Cardinality(S) -> S] : Range(s) = S}
EmptyMap == [k \in {} |-> {}]

\* ------------------------------------------------------------ state
VARIABLES
    pc,                     \* "boot", "running" or "panicked"
    fs,                     \* dir -> [readable, files: name -> bytes, sidecar]
    tags_json,              \* the file tags.json
    videos,                 \* App.videos, a Vec that is only appended to and
                            \* measured: the bag of its elements
    paths_from_hash,        \* App.paths_from_hash: hash -> path
    iter_order,             \* iteration order of the HashMap paths_from_hash
    videos_filtered,        \* App.videos_filtered
    update_hashes_on_load,  \* App.update_hashes_on_load
    tags,                   \* App.tags: [options, db]
    tag_filter,             \* App.tag_filter
    media_idx,              \* App.media_idx: Option<usize>
    player,                 \* App.player: the path handed to Player::new
    forced,                 \* dir -> the last forced build and the build without
                            \* force that followed it (history)
    env_steps,              \* changes the environment has made
    loads,                  \* folders picked
    tag_clicks,             \* tag checkboxes clicked
    saved                   \* App.tags as it was at the last "Save tags" (history)

vars == <<pc, fs, tags_json, videos, paths_from_hash, iter_order, videos_filtered,
          update_hashes_on_load, tags, tag_filter, media_idx, player,
          forced, env_steps, loads, tag_clicks, saved>>

app_vars == <<videos, paths_from_hash, iter_order, videos_filtered,
              update_hashes_on_load, tags, tag_filter, media_idx, player>>

\* ------------------------------------------------------------ files
\* a JSON file: absent, unparsable (corrupt or of another schema), or a value
NoFile == [exists |-> FALSE, valid |-> FALSE, options |-> <<>>, db |-> {}]
Corrupt == [exists |-> TRUE, valid |-> FALSE, options |-> <<>>, db |-> {}]
JsonFile(options, db) == [exists |-> TRUE, valid |-> TRUE, options |-> options, db |-> db]

\* serde_json of a HashMap: a JSON object, the set of its members <<key, value>>
to_json_object(m) == {<<k, m[k]>> : k \in DOMAIN m}
from_json_object(members) ==
    [k \in {mb[1] : mb \in members} |-> (CHOOSE mb \in members : mb[1] = k)[2]]

\* a parse of a JSON array that keeps its first element only: compared with
\* from_json_array in C15
from_json_array_first(arr) == IF arr = <<>> THEN {} ELSE {arr[1]}

\* serde_json of a HashSet: a JSON array, in the set's iteration order
to_json_arrays(S) == Perms(S)
from_json_array(arr) == Range(arr)

\* Path::parent, Path::file_name, Path::join, Path::extension
parent(path) == path[1]
file_name(path) == path[2]
join(dir, name) == <<dir, name>>
extension(path) == path[2][2]

sha256_digest(bytes) == CASE bytes = "x" -> "h1"
                          [] bytes = "y" -> "h2"

ReadableFile(path) == fs[parent(path)].files[file_name(path)] \in Bytes

file_hash(path) == sha256_digest(fs[parent(path)].files[file_name(path)])

has_allowed_extension(path) == extension(path) \in {"mp4", "gif", "webm"}


\* fs::read_dir(dir), the entries with an allowed extension: the listing is
\* returned in an order the operating system chooses
Listing(dir) ==
    {path \in {join(dir, name) : name \in FileNames} :
        fs[dir].files[file_name(path)] # "absent" /\ has_allowed_extension(path)}
read_dir(dir) == Perms(Listing(dir))

\* Iterator::collect into a HashMap: a later pair replaces an earlier one
Last(S) == CHOOSE i \in S : \A j \in S : j <= i
collect(kvs) ==
    [k \in {kvs[i][1] : i \in DOMAIN kvs} |->
        kvs[Last({i \in DOMAIN kvs : kvs[i][1] = k})][2]]

\* a load_json that yields the empty default whatever the file holds: compared
\* with load_json in C10
load_json_default(file) == EmptyMap

\* write_json of a FilesByHash, load_json of one
write_json_fbh(db) == JsonFile(<<>>, to_json_object(db))
load_json(file) == from_json_object(file.db)

\* a write_json of a Tags that writes the vocabulary and drops the
\* assignments: compared with write_json_tags in C12
write_json_vocabulary(tg) ==
    {JsonFile(o, {}) : o \in to_json_arrays(tg.options)}

\* write_json of a Tags: the arrays are written in the sets' iteration orders
write_json_tags(tg) ==
    {JsonFile(o, to_json_object(d)) :
        o \in to_json_arrays(tg.options),
        d \in {f \in [DOMAIN tg.db -> UNION {to_json_arrays(tg.db[h]) : h \in DOMAIN tg.db}] :
                 \A h \in DOMAIN tg.db : f[h] \in to_json_arrays(tg.db[h])}}

\* serde_json::from_str::<Tags>
tags_from_json(file) ==
    LET obj == from_json_object(file.db)
    IN  [options |-> from_json_array(file.options),
         db |-> [h \in DOMAIN obj |-> from_json_array(obj[h])]]

Tags_new == [options |-> {}, db |-> EmptyMap]

\* folder_hashes(paths, update): panic, the sidecar afterwards, the mapping returned
folder_hashes(paths, update) ==
    IF paths = <<>>
    THEN [panic |-> TRUE, sidecar |-> NoFile, ret |-> EmptyMap]       \* paths[0]
    ELSE
      LET dir == parent(paths[1])
          sidecar == fs[dir].sidecar
          resolve(db) == [h \in DOMAIN db |-> join(dir, db[h])]
      IN  IF sidecar.exists /\ ~update
          THEN IF ~sidecar.valid
               THEN [panic |-> TRUE, sidecar |-> sidecar, ret |-> EmptyMap]
               ELSE [panic |-> FALSE, sidecar |-> sidecar,
                     ret |-> resolve(load_json(sidecar))]
          ELSE IF \E i \in DOMAIN paths : ~ReadableFile(paths[i])
               THEN [panic |-> TRUE, sidecar |-> sidecar, ret |-> EmptyMap]
               ELSE LET temp == collect([i \in DOMAIN paths |->
                                    <<file_hash(paths[i]), file_name(paths[i])>>])
                    IN  [panic |-> FALSE, sidecar |-> write_json_fbh(temp),
                         ret |-> resolve(temp)]

\* a merge that keeps the path a hash already has: compared with insert_all
\* in C14
insert_missing(pfh, m) ==
    [h \in DOMAIN pfh \cup DOMAIN m |-> IF h \in DOMAIN pfh THEN pfh[h] ELSE m[h]]

\* HashMap::insert of every pair of m into pfh
insert_all(pfh, m) ==
    [h \in DOMAIN pfh \cup DOMAIN m |-> IF h \in DOMAIN m THEN m[h] ELSE pfh[h]]

\* App::load_folder, given the listing vids that read_dir produced
load_folder(dir, vids) ==
    LET fh == folder_hashes(vids, update_hashes_on_load)
    IN  IF fh.panic
        THEN [panic |-> TRUE, sidecar |-> fs[dir].sidecar, ret |-> EmptyMap,
              paths_from_hash |-> paths_from_hash, videos |-> videos]
        ELSE [panic |-> FALSE, sidecar |-> fh.sidecar, ret |-> fh.ret,
              paths_from_hash |-> insert_all(paths_from_hash, fh.ret),
              videos |-> videos (+) [path \in Range(vids) |-> 1]]

\* a disjunctive filter, one tag of the query is enough: compared with
\* filter_pred in C2
filter_pred_any(db, query, hash) ==
    query = {} \/ (hash \in DOMAIN db /\ \E tag \in query : tag \in db[hash])

\* the closure of the filter in App::update_filtered: does the entry of hash pass
filter_pred(db, query, hash) ==
    ~ \E tag \in query :
        IF hash \notin DOMAIN db \/ Cardinality(DOMAIN db) = 0
        THEN TRUE
        ELSE tag \notin db[hash]

RECURSIVE filter_map(_, _, _, _)
filter_map(pfh, order, db, query) ==
    IF order = <<>> THEN <<>>
    ELSE (IF filter_pred(db, query, Head(order)) THEN <<pfh[Head(order)]>> ELSE <<>>)
         \o filter_map(pfh, Tail(order), db, query)

\* an update_filtered that leaves the cursor alone: compared with
\* update_filtered in C17
update_filtered_keep(pfh, order, db, query, idx) ==
    [videos_filtered |-> filter_map(pfh, order, db, query), media_idx |-> idx]

\* App::update_filtered: the new videos_filtered and media_idx
update_filtered(pfh, order, db, query, idx) ==
    LET vf == filter_map(pfh, order, db, query)
    IN  [videos_filtered |-> vf,
         media_idx |-> IF Len(vf) > 0
                       THEN IF idx = None
                            THEN (IF Len(vf) > 0 THEN Some(0) ELSE None)
                            ELSE idx
                       ELSE None]

\* Vec indexing videos_filtered[i] panics when i is out of range
OutOfRange(vf, idx) == idx # None /\ idx[1] >= Len(vf)

\* App::new_player: panic, and the player (None when Player::new fails)
new_player(vf, idx) ==
    IF OutOfRange(vf, idx) THEN [panic |-> TRUE, player |-> None]
    ELSE [panic |-> FALSE,
          player |-> IF idx # None /\ ReadableFile(vf[idx[1] + 1])
                     THEN Some(vf[idx[1] + 1]) ELSE None]

\* App::update, the "selected:" label
selected_label(vf, idx) == [panic |-> OutOfRange(vf, idx)]

\* a Tags panel head that gives the selected file an entry without tags
\* whether or not it has one: compared with lazy_entry in C16
lazy_entry_reset(vf, idx, tg) ==
    IF Len(vf) > 0 /\ idx # None
    THEN IF OutOfRange(vf, idx) \/ ~ReadableFile(vf[idx[1] + 1])
         THEN [panic |-> TRUE, tags |-> tg]
         ELSE LET fh == file_hash(vf[idx[1] + 1])
              IN  [panic |-> FALSE,
                   tags |-> [tg EXCEPT !.db = [h \in DOMAIN tg.db \cup {fh} |->
                                        IF h = fh THEN {} ELSE tg.db[h]]]]
    ELSE [panic |-> FALSE, tags |-> tg]

\* App::update, the head of the Tags panel: the entry of the selected file's
\* current hash is created when missing
lazy_entry(vf, idx, tg) ==
    IF Len(vf) > 0 /\ idx # None
    THEN IF OutOfRange(vf, idx) \/ ~ReadableFile(vf[idx[1] + 1])
         THEN [panic |-> TRUE, tags |-> tg]
         ELSE LET fh == file_hash(vf[idx[1] + 1])
              IN  [panic |-> FALSE,
                   tags |-> IF fh \in DOMAIN tg.db THEN tg
                            ELSE [tg EXCEPT !.db = [h \in DOMAIN tg.db \cup {fh} |->
                                        IF h = fh THEN {} ELSE tg.db[h]]]]
    ELSE [panic |-> FALSE, tags |-> tg]

\* a Next that skips an item: compared with next_idx in C6
skip_idx(idx, n) == IF idx = None THEN None ELSE Some((idx[1] + 2) % n)

\* the Prev and Next buttons
prev_idx(idx, n) == IF idx = None THEN None ELSE Some((idx[1] + n - 1) % n)
next_idx(idx, n) == IF idx = None THEN None ELSE Some((idx[1] + 1) % n)

\* a tag checkbox of the Tags panel, clicked
toggle_tag(tg, fh, opt) ==
    [tg EXCEPT !.db[fh] = IF opt \in @ THEN @ \ {opt} ELSE @ \cup {opt}]

\* a filter checkbox, clicked
toggle_filter(query, opt) ==
    IF opt \in query THEN query \ {opt} ELSE query \cup {opt}


\* ------------------------------------------------------------ history
\* forced[d], while nothing in d has changed since the last forced build of d:
\* the mapping that build returned (ret) and the sidecar it wrote; reused: a
\* build of d without force has followed it and returned the mapping again
NoBuild == [valid |-> FALSE, ret |-> EmptyMap, sidecar |-> NoFile,
            reused |-> FALSE, again |-> EmptyMap]

\* ------------------------------------------------------------ initial state
\* no directory at the path
NoDir == [readable |-> FALSE, files |-> [name \in FileNames |-> "absent"],
          sidecar |-> NoFile]

\* d1 holds a.mp4 and b.webm; d2 holds no media file any more, its sidecar is
\* left from a session in which it held a.mp4; d3 cannot be read; d4 holds an
\* a.mp4 that cannot be read; each of them holds notes.txt; d5 does not exist
InitFiles == [d \in Dirs |->
    IF d = "d5" THEN NoDir ELSE
    [readable |-> d # "d3",
     files |-> [name \in FileNames |->
                  CASE name = <<"notes", "txt">> -> "x"
                    [] name = <<"a", "mp4">> ->
                         (CASE d = "d2" -> "absent" [] d = "d4" -> "unreadable" [] OTHER -> "x")
                    [] name = <<"b", "webm">> -> (IF d = "d1" THEN "y" ELSE "absent")],
     sidecar |-> IF d = "d2"
                 THEN write_json_fbh([h \in {"h1"} |-> <<"a", "mp4">>])
                 ELSE NoFile]]

\* tags.json of an earlier session: a vocabulary and no assignment yet, or the
\* assignments of spec.md section 8 ("abc" is h1, "def" is h2)
Untagged == JsonFile(<<"funny", "loud">>, {})
Tagged == JsonFile(<<"loud", "funny">>,
                   {<<"h1", <<"funny">>>>, <<"h2", <<"loud", "funny">>>>})

\* the process has not started; tags.json is missing, damaged, or one of the
\* two above
Init ==
    /\ pc = "boot"
    /\ fs = InitFiles
    /\ tags_json \in {NoFile, Corrupt, Untagged, Tagged}
    /\ videos = EmptyBag
    /\ paths_from_hash = EmptyMap
    /\ iter_order = <<>>
    /\ videos_filtered = <<>>
    /\ update_hashes_on_load = FALSE
    /\ tags = Tags_new
    /\ tag_filter = {}
    /\ media_idx = None
    /\ player = None
    /\ forced = [d \in Dirs |-> NoBuild]
    /\ env_steps = 0
    /\ loads = 0
    /\ tag_clicks = 0
    /\ saved = None

\* ------------------------------------------------------------ environment
EnvChange(d, dirstate) ==
    /\ pc = "running"
    /\ env_steps < MaxEnv
    /\ env_steps' = env_steps + 1
    /\ fs' = [fs EXCEPT ![d] = dirstate]
    /\ forced' = [forced EXCEPT ![d] = NoBuild]
    /\ UNCHANGED <<pc, tags_json, app_vars, loads, tag_clicks, saved>>

\* a media file is written, replaced or removed
EnvWrite(d, name, bytes) ==
    /\ fs[d].files[name] # bytes
    /\ EnvChange(d, [fs[d] EXCEPT !.files[name] = bytes])

\* a directory is moved to a path where there is none
EnvMove(d, e) ==
    /\ pc = "running"
    /\ env_steps < MaxEnv
    /\ env_steps' = env_steps + 1
    /\ d # e /\ fs[d] # NoDir /\ fs[e] = NoDir
    /\ fs' = [fs EXCEPT ![e] = fs[d], ![d] = NoDir]
    /\ forced' = [forced EXCEPT ![d] = NoBuild, ![e] = NoBuild]
    /\ UNCHANGED <<pc, tags_json, app_vars, loads, tag_clicks, saved>>

\* a sidecar is damaged
EnvCorruptSidecar(d) ==
    /\ fs[d].sidecar.exists /\ fs[d].sidecar.valid
    /\ EnvChange(d, [fs[d] EXCEPT !.sidecar = Corrupt])

\* ------------------------------------------------------------ the program
\* App::default
Startup ==
    /\ pc = "boot"
    /\ IF tags_json.exists
       THEN IF tags_json.valid
            THEN /\ tags' = tags_from_json(tags_json)
                 /\ pc' = "running"
                 /\ UNCHANGED tags_json
            ELSE /\ pc' = "panicked"
                 /\ UNCHANGED <<tags, tags_json>>
       ELSE /\ tags' = Tags_new
            /\ tags_json' \in write_json_tags(Tags_new)
            /\ pc' = "running"
    /\ UNCHANGED <<fs, videos, paths_from_hash, iter_order, videos_filtered,
                   update_hashes_on_load, tag_filter, media_idx, player,
                   forced, env_steps, loads, tag_clicks, saved>>

\* the part of App::update every frame runs after the event of the frame:
\* the "selected:" label and the head of the Tags panel
rest_of_frame(vf, idx, tg) ==
    IF selected_label(vf, idx).panic THEN [panic |-> TRUE, tags |-> tg]
    ELSE lazy_entry(vf, idx, tg)

\* a frame without a user event
FrameIdle ==
    /\ pc = "running"
    /\ LET r == rest_of_frame(videos_filtered, media_idx, tags)
       IN  /\ tags' = r.tags
           /\ pc' = IF r.panic THEN "panicked" ELSE "running"
    /\ UNCHANGED <<fs, tags_json, videos, paths_from_hash, iter_order, videos_filtered,
                   update_hashes_on_load, tag_filter, media_idx, player,
                   forced, env_steps, loads, tag_clicks, saved>>

\* the "recalculate folder hashes" checkbox is clicked
FrameRecalc ==
    /\ pc = "running"
    /\ update_hashes_on_load' = ~update_hashes_on_load
    /\ LET r == rest_of_frame(videos_filtered, media_idx, tags)
       IN  /\ tags' = r.tags
           /\ pc' = IF r.panic THEN "panicked" ELSE "running"
    /\ UNCHANGED <<fs, tags_json, videos, paths_from_hash, iter_order, videos_filtered,
                   tag_filter, media_idx, player, forced, env_steps, loads, tag_clicks, saved>>

\* the history of builds after load_folder(d) returned ret
built(d, lf) ==
    IF update_hashes_on_load
    THEN [forced EXCEPT ![d] = [valid |-> TRUE, ret |-> lf.ret, sidecar |-> lf.sidecar,
                                reused |-> FALSE, again |-> EmptyMap]]
    ELSE IF forced[d].valid
         THEN [forced EXCEPT ![d].reused = TRUE, ![d].again = lf.ret]
         ELSE forced

\* a folder is picked: load_folder, new_player, the rest of the frame
FramePickFolder(d) ==
    /\ pc = "running"
    /\ fs[d] # NoDir                     \* the dialog returns an existing folder
    /\ loads < MaxLoads
    /\ loads' = loads + 1
    /\ IF ~fs[d].readable
       THEN /\ pc' = "panicked"                      \* read_dir(..).expect
            /\ UNCHANGED <<fs, videos, paths_from_hash, iter_order, tags, player, forced>>
       ELSE \E vids \in read_dir(d) :
            LET lf == load_folder(d, vids)
                np == new_player(videos_filtered, media_idx)
                r == rest_of_frame(videos_filtered, media_idx, tags)
            IN  IF lf.panic
                THEN /\ pc' = "panicked"
                     /\ UNCHANGED <<fs, videos, paths_from_hash, iter_order, tags,
                                    player, forced>>
                ELSE /\ fs' = [fs EXCEPT ![d].sidecar = lf.sidecar]
                     /\ videos' = lf.videos
                     /\ paths_from_hash' = lf.paths_from_hash
                     /\ IF DOMAIN lf.paths_from_hash = DOMAIN paths_from_hash
                        THEN iter_order' = iter_order
                        ELSE iter_order' \in Perms(DOMAIN lf.paths_from_hash)
                     /\ forced' = built(d, lf)
                     /\ IF np.panic
                        THEN pc' = "panicked" /\ UNCHANGED <<player, tags>>
                        ELSE /\ player' = np.player
                             /\ tags' = r.tags
                             /\ pc' = IF r.panic THEN "panicked" ELSE "running"
    /\ UNCHANGED <<tags_json, videos_filtered, update_hashes_on_load, tag_filter,
                   media_idx, env_steps, tag_clicks, saved>>

\* a filter checkbox is clicked: update_filtered, new_player, the rest of the frame
FrameFilter(opt) ==
    /\ pc = "running"
    /\ opt \in tags.options
    /\ LET query == toggle_filter(tag_filter, opt)
           uf == update_filtered(paths_from_hash, iter_order, tags.db, query, media_idx)
           np == new_player(uf.videos_filtered, uf.media_idx)
           r == rest_of_frame(uf.videos_filtered, uf.media_idx, tags)
       IN  /\ tag_filter' = query
           /\ videos_filtered' = uf.videos_filtered
           /\ media_idx' = uf.media_idx
           /\ IF np.panic
              THEN pc' = "panicked" /\ UNCHANGED <<player, tags>>
              ELSE /\ player' = np.player
                   /\ tags' = r.tags
                   /\ pc' = IF r.panic THEN "panicked" ELSE "running"
    /\ UNCHANGED <<fs, tags_json, videos, paths_from_hash, iter_order,
                   update_hashes_on_load, forced, env_steps, loads, tag_clicks, saved>>

\* Prev or Next is clicked: the label, the new index, new_player, the Tags panel
Navigate(idx) ==
    /\ pc = "running"
    /\ Len(videos_filtered) > 0
    /\ IF selected_label(videos_filtered, media_idx).panic
       THEN pc' = "panicked" /\ UNCHANGED <<media_idx, player, tags>>
       ELSE LET np == new_player(videos_filtered, idx)
                r == lazy_entry(videos_filtered, idx, tags)
            IN  /\ media_idx' = idx
                /\ IF np.panic
                   THEN pc' = "panicked" /\ UNCHANGED <<player, tags>>
                   ELSE /\ player' = np.player
                        /\ tags' = r.tags
                        /\ pc' = IF r.panic THEN "panicked" ELSE "running"
    /\ UNCHANGED <<fs, tags_json, videos, paths_from_hash, iter_order, videos_filtered,
                   update_hashes_on_load, tag_filter, forced, env_steps, loads,
                   tag_clicks, saved>>

FramePrev == Navigate(prev_idx(media_idx, Len(videos_filtered)))

FrameNext == Navigate(next_idx(media_idx, Len(videos_filtered)))

\* a tag checkbox of the selected item is clicked
FrameTag(opt) ==
    /\ pc = "running"
    /\ Len(videos_filtered) > 0 /\ media_idx # None
    /\ opt \in tags.options
    /\ tag_clicks < MaxTagClicks
    /\ tag_clicks' = tag_clicks + 1
    /\ LET r == rest_of_frame(videos_filtered, media_idx, tags)
       IN  IF r.panic
           THEN pc' = "panicked" /\ UNCHANGED tags
           ELSE /\ tags' = toggle_tag(r.tags, file_hash(videos_filtered[media_idx[1] + 1]), opt)
                /\ pc' = "running"
    /\ UNCHANGED <<fs, tags_json, videos, paths_from_hash, iter_order, videos_filtered,
                   update_hashes_on_load, tag_filter, media_idx, player,
                   forced, env_steps, loads, saved>>

\* "Save tags" is clicked
FrameSave ==
    /\ pc = "running"
    /\ Len(videos_filtered) > 0 /\ media_idx # None
    /\ LET r == rest_of_frame(videos_filtered, media_idx, tags)
       IN  IF r.panic
           THEN pc' = "panicked" /\ UNCHANGED <<tags, tags_json, saved>>
           ELSE /\ tags' = r.tags
                /\ tags_json' \in write_json_tags(r.tags)
                /\ saved' = Some(r.tags)
                /\ pc' = "running"
    /\ UNCHANGED <<fs, videos, paths_from_hash, iter_order, videos_filtered,
                   update_hashes_on_load, tag_filter, media_idx, player,
                   forced, env_steps, loads, tag_clicks>>

\* Sessions without a click on "Save tags".  After App::default nothing reads
\* tags.json, and a Save frame changes nothing else that another frame reads,
\* so these are the behaviours of every variable but tags_json.
Next ==
    \/ Startup
    \/ FrameIdle
    \/ FrameRecalc
    \/ \E d \in Dirs : FramePickFolder(d)
    \/ \E opt \in TagNames : FrameFilter(opt)
    \/ FramePrev
    \/ FrameNext
    \/ \E opt \in TagNames : FrameTag(opt)
    \/ \E d \in ChangedDirs, name \in ChangedNames, bytes \in Bytes \cup {"absent"} :
          EnvWrite(d, name, bytes)
    \/ \E d \in ChangedDirs : EnvCorruptSidecar(d)

Spec == Init /\ [][Next]_vars

\* d2 still holds its a.mp4, with other bytes than when its sidecar was written
StaleFiles == [InitFiles EXCEPT !["d2"].files[<<"a", "mp4">>] = "y"]

InitFolders ==
    /\ pc = "boot"
    /\ fs \in {InitFiles, StaleFiles}
    /\ tags_json \in {NoFile, Corrupt, Untagged, Tagged}
    /\ videos = EmptyBag
    /\ paths_from_hash = EmptyMap
    /\ iter_order = <<>>
    /\ videos_filtered = <<>>
    /\ update_hashes_on_load = FALSE
    /\ tags = Tags_new
    /\ tag_filter = {}
    /\ media_idx = None
    /\ player = None
    /\ forced = [d \in Dirs |-> NoBuild]
    /\ env_steps = 0
    /\ loads = 0
    /\ tag_clicks = 0
    /\ saved = None

\* Sessions that load several folders, directories being moved in between
NextFolders ==
    \/ Startup
    \/ FrameIdle
    \/ FrameRecalc
    \/ \E d \in Dirs : FramePickFolder(d)
    \/ \E opt \in TagNames : FrameFilter(opt)
    \/ FramePrev
    \/ FrameNext
    \/ \E d \in MovedDirs, e \in NewDirs : EnvMove(d, e)

SpecFolders == InitFolders /\ [][NextFolders]_vars

\* the window is closed: the process ends, and the program is started again
Quit ==
    /\ pc = "running"
    /\ pc' = "boot"
    /\ videos' = EmptyBag
    /\ paths_from_hash' = EmptyMap
    /\ iter_order' = <<>>
    /\ videos_filtered' = <<>>
    /\ update_hashes_on_load' = FALSE
    /\ tags' = Tags_new
    /\ tag_filter' = {}
    /\ media_idx' = None
    /\ player' = None
    /\ UNCHANGED <<fs, tags_json, forced, env_steps, loads, tag_clicks, saved>>

\* Sessions with "Save tags", one after the other, over a file system that
\* nothing else changes and without forced rebuilds (tags.json is read and
\* written independently of the sidecars)
NextSave ==
    \/ Startup
    \/ FrameIdle
    \/ \E d \in Dirs : FramePickFolder(d)
    \/ \E opt \in TagNames : FrameFilter(opt)
    \/ FramePrev
    \/ FrameNext
    \/ \E opt \in TagNames : FrameTag(opt)
    \/ FrameSave
    \/ Quit

SpecSave == Init /\ [][NextSave]_vars

\* ------------------------------------------------------------ properties
\* the filtered sequence update_filtered computes from the index and the tag
\* assignments of the current state under the filter query
resolution(query) ==
    update_filtered(paths_from_hash, iter_order, tags.db, query, media_idx).videos_filtered

Queries == SUBSET TagNames

\* the frame is one in which a filter checkbox was clicked
FilterChanged == tag_filter' # tag_filter

\* the frame is one in which a folder was picked
FolderPicked == loads' # loads

\* C1 (as stated): for every filter query, the path of every hash of the index
\* that has no entry in tags.db is in the sequence update_filtered computes.
C1_VacuousPass ==
    \A query \in Queries : \A h \in DOMAIN paths_from_hash :
        h \notin DOMAIN tags.db => paths_from_hash[h] \in Range(resolution(query))

\* C2 (as stated): for every hash of the index with an entry S in tags.db, its
\* path is in the sequence update_filtered computes if and only if S contains
\* every tag of the query.
C2_Original ==
    \A query \in Queries : \A h \in DOMAIN paths_from_hash \cap DOMAIN tags.db :
        paths_from_hash[h] \in Range(resolution(query)) <=> query \subseteq tags.db[h]

\* C2 (amended): for every hash of the index with an entry S in tags.db: if S
\* contains every tag of the query, its path is in the sequence update_filtered
\* computes; if its path is in that sequence, S contains every tag of the query
\* or the index holds the same path under another hash as well.  The empty
\* query admits every such path.
C2_Conjunctive ==
    \A query \in Queries : \A h \in DOMAIN paths_from_hash \cap DOMAIN tags.db :
        LET path == paths_from_hash[h]
            shown == path \in Range(resolution(query))
        IN  /\ query \subseteq tags.db[h] => shown
            /\ shown => \/ query \subseteq tags.db[h]
                        \/ \E g \in DOMAIN paths_from_hash \ {h} : paths_from_hash[g] = path
            /\ query = {} => shown

\* C2 witness: a filter click has left a non-empty filter, under which one
\* tagged hash of the index is shown and another is hidden
C2_Witness ==
    /\ pc = "running"
    /\ tag_filter # {}
    /\ videos_filtered = resolution(tag_filter)
    /\ \E h, g \in DOMAIN paths_from_hash \cap DOMAIN tags.db :
          /\ tag_filter \subseteq tags.db[h]
          /\ paths_from_hash[h] \in Range(videos_filtered)
          /\ ~(tag_filter \subseteq tags.db[g])
          /\ paths_from_hash[g] \notin Range(videos_filtered)

\* C3 (as stated): when a filter change removes the selected path from the
\* filtered sequence, the cursor afterwards is Some(0) if the new sequence is
\* not empty and None if it is; the old index is not kept.
C3_SelectionReset ==
    [][(/\ FilterChanged
        /\ media_idx # None
        /\ ~OutOfRange(videos_filtered, media_idx)
        /\ videos_filtered[media_idx[1] + 1] \notin Range(videos_filtered'))
       => media_idx' = IF videos_filtered' # <<>> THEN Some(0) ELSE None]_vars

\* C4 (as stated): in every reachable state, if the cursor is Some(i) then i is
\* less than the length of the filtered sequence.
C4_IndexValid == ~OutOfRange(videos_filtered, media_idx)

\* C5 (as stated): after a folder load with no prior selection, if the
\* resolution of the merged index under the current tags and filter is not
\* empty, the filtered sequence is that resolution and the cursor is Some(0).
C5_LoadRecomputes ==
    [][(FolderPicked /\ pc' = "running" /\ media_idx = None)
       => LET merged == update_filtered(paths_from_hash', iter_order', tags'.db,
                                        tag_filter', None).videos_filtered
          IN  merged # <<>> => videos_filtered' = merged /\ media_idx' = Some(0)]_vars

\* Next and Prev, clicked k times on a sequence of n items
RECURSIVE next_times(_, _, _)
next_times(idx, n, k) == IF k = 0 THEN idx ELSE next_times(next_idx(idx, n), n, k - 1)

RECURSIVE prev_times(_, _, _)
prev_times(idx, n, k) == IF k = 0 THEN idx ELSE prev_times(prev_idx(idx, n), n, k - 1)

\* from index i of n items, n clicks on Next visit every index and are back at
\* i after exactly n of them, Prev does so in reverse, and each undoes the other
Cycles(n, i) ==
    /\ next_times(Some(i), n, n) = Some(i)
    /\ prev_times(Some(i), n, n) = Some(i)
    /\ \A k \in 1..(n - 1) : /\ next_times(Some(i), n, k) # Some(i)
                             /\ prev_times(Some(i), n, k) # Some(i)
    /\ {next_times(Some(i), n, k) : k \in 0..(n - 1)} = {Some(j) : j \in 0..(n - 1)}
    /\ {prev_times(Some(i), n, k) : k \in 0..(n - 1)} = {Some(j) : j \in 0..(n - 1)}
    /\ \A k \in 0..n : prev_times(Some(i), n, k) = next_times(Some(i), n, n - k)
    /\ prev_idx(next_idx(Some(i), n), n) = Some(i)
    /\ next_idx(prev_idx(Some(i), n), n) = Some(i)

AllCycles == \A n \in 1..MaxCycle : \A i \in 0..(n - 1) : Cycles(n, i)

\* a frame with Next or Prev clicked on item i of n leaves the filtered
\* sequence and the filter as they are
NavigationKeeps == videos_filtered' = videos_filtered /\ tag_filter' = tag_filter

\* the only change to the tag store is an entry with no tags for the current
\* hash of the item that is selected afterwards
OnlyLazyEntry ==
    /\ tags'.options = tags.options
    /\ DOMAIN tags.db \subseteq DOMAIN tags'.db
    /\ \A h \in DOMAIN tags.db : tags'.db[h] = tags.db[h]
    /\ \A h \in DOMAIN tags'.db \ DOMAIN tags.db :
          /\ tags'.db[h] = {}
          /\ media_idx' # None
          /\ h = file_hash(videos_filtered[media_idx'[1] + 1])

\* C6 (as stated): on item i of n > 0, Next moves to (i+1) mod n and Prev to
\* (i+n-1) mod n, n steps of either cycle through every index back to i, each
\* undoes the other, and neither changes the filtered sequence, the filter or
\* the tag store.
C6_Original ==
    [][/\ AllCycles
       /\ (media_idx # None /\ ~OutOfRange(videos_filtered, media_idx))
          => LET n == Len(videos_filtered)
                 i == media_idx[1]
             IN  /\ FrameNext => /\ media_idx' = Some((i + 1) % n)
                                 /\ NavigationKeeps /\ tags' = tags
                 /\ FramePrev => /\ media_idx' = Some((i + n - 1) % n)
                                 /\ NavigationKeeps /\ tags' = tags]_vars

\* C6 (amended): on item i of n > 0, Next moves to (i+1) mod n and Prev to
\* (i+n-1) mod n, n steps of either cycle through every index back to i, and
\* each undoes the other.  Neither changes the filtered sequence, the filter,
\* the vocabulary or an existing entry of the tag store; the frame adds an
\* entry with no tags for the hash of the newly selected file if it has none.
C6_Navigation ==
    [][/\ AllCycles
       /\ (media_idx # None /\ ~OutOfRange(videos_filtered, media_idx))
          => LET n == Len(videos_filtered)
                 i == media_idx[1]
             IN  /\ FrameNext => /\ media_idx' = Some((i + 1) % n)
                                 /\ NavigationKeeps /\ OnlyLazyEntry
                 /\ FramePrev => /\ media_idx' = Some((i + n - 1) % n)
                                 /\ NavigationKeeps /\ OnlyLazyEntry]_vars

\* C6 witness: in a session that began without assignments, the second of two
\* filtered items has been reached by Next or Prev and has got its entry
C6_Witness ==
    /\ pc = "running"
    /\ tags_json = Untagged
    /\ Len(videos_filtered) = 2
    /\ media_idx = Some(1)
    /\ ReadableFile(videos_filtered[2])
    /\ file_hash(videos_filtered[2]) \in DOMAIN tags.db
    /\ file_hash(videos_filtered[2]) # file_hash(videos_filtered[1])

\* the load of dir meets a directory or a file to hash that cannot be read
IOFails(dir) ==
    \/ ~fs[dir].readable
    \/ /\ update_hashes_on_load \/ ~fs[dir].sidecar.exists
       /\ \E path \in Listing(dir) : ~ReadableFile(path)

\* C7 (as stated): a folder load that meets a directory or a file it cannot
\* read does not abort the process, leaves the index as it was and leaves the
\* sidecars and tags.json as they were.
C7_Recoverable ==
    [][\A d \in Dirs : (FramePickFolder(d) /\ IOFails(d))
          => /\ pc' = "running"
             /\ paths_from_hash' = paths_from_hash
             /\ fs' = fs
             /\ tags_json' = tags_json]_vars

\* C8 (as stated): a tags.json that exists but cannot be parsed makes startup
\* continue with the empty tag store, and a sidecar that exists but cannot be
\* parsed makes a load without force continue with the empty cache; neither
\* aborts.
C8_Fallback ==
    [][/\ (Startup /\ tags_json.exists /\ ~tags_json.valid)
          => pc' = "running" /\ tags' = Tags_new
       /\ \A d \in Dirs :
            (/\ FramePickFolder(d)
             /\ fs[d].readable /\ Listing(d) # {}
             /\ ~update_hashes_on_load
             /\ fs[d].sidecar.exists /\ ~fs[d].sidecar.valid)
            => pc' = "running" /\ paths_from_hash' = paths_from_hash]_vars

\* the sidecar holds exactly a mapping from the hash of the current bytes of
\* every listed media file of dir to the name of a listed file with that hash
FreshSidecar(sidecar, dir, listing) ==
    /\ sidecar.exists /\ sidecar.valid
    /\ \A member \in sidecar.db :
          \E path \in listing : /\ member[2] = file_name(path)
                               /\ member[1] = file_hash(path)
    /\ \A path \in listing : \E member \in sidecar.db : member[1] = file_hash(path)
    /\ \A m1, m2 \in sidecar.db : m1[1] = m2[1] => m1 = m2

\* C9 (as stated): a forced build of a readable folder whose listed media files
\* are readable always replaces the sidecar with exactly the mapping from the
\* current hashes to the file names, whether or not a sidecar existed; no entry
\* of the previous sidecar survives unless it is recomputed.
C9_ForcedRebuild ==
    [][\A d \in Dirs :
          (/\ FramePickFolder(d)
           /\ update_hashes_on_load
           /\ fs[d].readable
           /\ \A path \in Listing(d) : ReadableFile(path))
          => FreshSidecar(fs'[d].sidecar, d, Listing(d))]_vars

\* C10: while nothing in a directory changes, a build without force that
\* follows a forced build returns the mapping the forced build returned and
\* leaves the sidecar as the forced build wrote it.
C10_CacheIdempotent ==
    \A d \in Dirs :
        forced[d].reused => /\ forced[d].again = forced[d].ret
                            /\ fs[d].sidecar = forced[d].sidecar

\* C10 witness: a build without force has followed a forced build of a
\* directory with media files, nothing in the directory having changed
C10_Witness ==
    \E d \in Dirs : /\ forced[d].reused
                    /\ forced[d].ret # EmptyMap
                    /\ pc = "running"

\* the order of absolute path strings: directory, then file name
DirRank(dir) == CASE dir = "d1" -> 1 [] dir = "d2" -> 2 [] dir = "d3" -> 3
                  [] dir = "d4" -> 4 [] OTHER -> 5
NameRank(name) == CASE name = <<"a", "mp4">> -> 1 [] name = <<"b", "webm">> -> 2
                    [] OTHER -> 3
path_le(p, q) ==
    \/ DirRank(parent(p)) < DirRank(parent(q))
    \/ parent(p) = parent(q) /\ NameRank(file_name(p)) <= NameRank(file_name(q))

Ascending(seq) == \A i, j \in DOMAIN seq : i < j => path_le(seq[i], seq[j])

\* C13 (as stated): the sequence update_filtered computes lists the paths in
\* ascending lexicographic order of the path string, whatever the query.
C13_Ordered == \A query \in Queries : Ascending(resolution(query))

\* C17: in every reachable state media_idx is None exactly when
\* videos_filtered is empty, so Prev and Next, offered only on a non-empty
\* sequence, always find a selection.
C17_CursorIffNonEmpty == (media_idx = None) <=> (Len(videos_filtered) = 0)

\* C17 witness: in a session that began without assignments an item was
\* selected (it got its entry), and a filter click has emptied the sequence
\* and cleared the cursor since
C17_Witness ==
    /\ pc = "running"
    /\ tags_json = Untagged
    /\ DOMAIN tags.db # {}
    /\ paths_from_hash # EmptyMap
    /\ tag_filter # {}
    /\ videos_filtered = <<>>
    /\ media_idx = None

\* C18 (as stated): the load of a readable folder without a file of an allowed
\* extension completes without aborting, adds nothing to the index, writes no
\* sidecar and leaves the loaded videos and the selection as they were.
C18_EmptyFolder ==
    [][\A d \in Dirs :
          (FramePickFolder(d) /\ fs[d].readable /\ Listing(d) = {})
          => /\ pc' = "running"
             /\ paths_from_hash' = paths_from_hash
             /\ fs' = fs
             /\ videos' = videos
             /\ videos_filtered' = videos_filtered
             /\ media_idx' = media_idx]_vars

\* a frame of the program that ends without a panic and in which no tag
\* checkbox was clicked
PlainFrame ==
    /\ pc = "running" /\ pc' = "running"
    /\ env_steps' = env_steps
    /\ tag_clicks' = tag_clicks

\* an item is selected after the step and its file can be read
SelectedAfter ==
    /\ media_idx' # None
    /\ ~OutOfRange(videos_filtered', media_idx')
    /\ ReadableFile(videos_filtered'[media_idx'[1] + 1])

\* C16: a frame that ends with an item selected leaves an entry for the hash
\* of the item's current content in tags.db: a new entry has no tags, an
\* existing entry is kept as it is, and the entries of all other hashes and
\* the vocabulary are unchanged; a frame without a selection changes nothing.
C16_LazyEntry ==
    [][PlainFrame =>
         IF SelectedAfter
         THEN LET fh == file_hash(videos_filtered'[media_idx'[1] + 1])
              IN  /\ DOMAIN tags'.db = DOMAIN tags.db \cup {fh}
                  /\ fh \notin DOMAIN tags.db => tags'.db[fh] = {}
                  /\ \A h \in DOMAIN tags.db : tags'.db[h] = tags.db[h]
                  /\ tags'.options = tags.options
         ELSE tags' = tags]_vars

\* C16 witness: in a session that began without assignments, the selected
\* item has got an entry without tags while the entry of another hash kept
\* the tag it was given
C16_Witness ==
    /\ pc = "running"
    /\ tags_json = Untagged
    /\ media_idx # None
    /\ ~OutOfRange(videos_filtered, media_idx)
    /\ ReadableFile(videos_filtered[media_idx[1] + 1])
    /\ LET fh == file_hash(videos_filtered[media_idx[1] + 1])
       IN  /\ fh \in DOMAIN tags.db
           /\ tags.db[fh] = {}
           /\ \E h \in DOMAIN tags.db \ {fh} : tags.db[h] # {}

\* C19 (as stated): a tag toggled on for the selected item is recorded under
\* the hash that keys the item's path in the index: once the filter is made
\* exactly that tag, update_filtered shows the path.
C19_TagUnderIndexKey ==
    [][\A opt \in TagNames :
          (/\ FrameTag(opt)
           /\ pc' = "running"
           /\ opt \in tags'.db[file_hash(videos_filtered[media_idx[1] + 1])])
          => videos_filtered[media_idx[1] + 1] \in
                Range(update_filtered(paths_from_hash', iter_order', tags'.db,
                                      {opt}, media_idx').videos_filtered)]_vars

\* the hash passes the current filter under the current assignments (a hash
\* without an entry counted as passing)
Satisfies(h) == h \notin DOMAIN tags.db \/ tag_filter \subseteq tags.db[h]

\* C20 (as stated): in every reachable state every path of videos_filtered
\* belongs to a hash of the index that satisfies the current filter under the
\* current tag assignments.
C20_NeverStale ==
    \A i \in DOMAIN videos_filtered :
        \E h \in DOMAIN paths_from_hash :
            paths_from_hash[h] = videos_filtered[i] /\ Satisfies(h)

\* the JSON file holds the vocabulary and the assignments of the tag store:
\* every array lists its set once, every hash has one member
SameContent(file, tg) ==
    /\ file.exists /\ file.valid
    /\ Range(file.options) = tg.options
    /\ Len(file.options) = Cardinality(tg.options)
    /\ {member[1] : member \in file.db} = DOMAIN tg.db
    /\ Cardinality(file.db) = Cardinality(DOMAIN tg.db)
    /\ \A member \in file.db :
          /\ Range(member[2]) = tg.db[member[1]]
          /\ Len(member[2]) = Cardinality(tg.db[member[1]])

\* C12: once startup has completed, tags.json changes only in a frame in which
\* "Save tags" is clicked, and after that frame it holds the vocabulary and
\* the assignments that are in memory; tag clicks, lazy entries, filter
\* clicks, navigation and folder loads leave the file as it is.
C12_NoAutoPersist ==
    [][(pc = "running" /\ tags_json' # tags_json)
       => FrameSave /\ SameContent(tags_json', tags')]_vars

\* C12 witness: after a Save a tag checkbox was clicked; the file still holds
\* what was saved, not what is in memory
C12_Witness ==
    /\ pc = "running"
    /\ saved # None
    /\ SameContent(tags_json, saved[1])
    /\ tags # saved[1]
    /\ \E h \in DOMAIN tags.db \cap DOMAIN saved[1].db : tags.db[h] # saved[1].db[h]

\* C15: a tag store that was saved and is loaded at the next startup has the
\* saved vocabulary as a set, the saved hashes, and for each hash the saved
\* set of tags.
C15_RoundTrip ==
    [][(Startup /\ saved # None)
       => /\ pc' = "running"
          /\ tags'.options = saved[1].options
          /\ DOMAIN tags'.db = DOMAIN saved[1].db
          /\ \A h \in DOMAIN saved[1].db : tags'.db[h] = saved[1].db[h]]_vars

\* C15 witness: a store with a tagged hash was saved, the window was closed,
\* and the next session has started from the file (nothing is loaded yet)
C15_Witness ==
    /\ pc = "running"
    /\ saved # None
    /\ paths_from_hash = EmptyMap
    /\ videos = EmptyBag
    /\ tags = saved[1]
    /\ \E h \in DOMAIN tags.db : Cardinality(tags.db[h]) = 2

\* C11 (as stated): a build without force of a directory that was moved with
\* its sidecar returns, for every hash h of the sidecar with file name f, the
\* path f has in the new directory, and does not hash again (the sidecar
\* stays as it is).
C11_Relocation ==
    [][\A d \in NewDirs :
          (/\ FramePickFolder(d)
           /\ ~update_hashes_on_load
           /\ fs[d].sidecar.exists /\ fs[d].sidecar.valid)
          => /\ \A member \in fs[d].sidecar.db :
                   /\ member[1] \in DOMAIN paths_from_hash'
                   /\ paths_from_hash'[member[1]] = join(d, member[2])
             /\ fs'[d].sidecar = fs[d].sidecar]_vars

\* the load of dir runs to its end: the directory can be read, lists a media
\* file, and what the build reads (the sidecar, or else every listed file)
\* can be read
LoadCompletes(dir) ==
    /\ fs[dir].readable
    /\ Listing(dir) # {}
    /\ IF fs[dir].sidecar.exists /\ ~update_hashes_on_load
       THEN fs[dir].sidecar.valid
       ELSE \A path \in Listing(dir) : ReadableFile(path)

\* the index of a folder after a build of it: its sidecar, resolved
FolderIndex(sidecar, dir) == {<<member[1], join(dir, member[2])>> : member \in sidecar.db}

\* C14: a folder load maps every hash of the loaded folder's index to its path
\* in that folder and leaves the entries of all other hashes as they were (a
\* load that aborts leaves the index as it was); so after any sequence of
\* loads every hash has the path of the most recently loaded folder that
\* contained it.
C14_LastMergeWins ==
    [][\A d \in Dirs :
          FramePickFolder(d) =>
            IF LoadCompletes(d)
            THEN LET index == FolderIndex(fs'[d].sidecar, d)
                     hashes == {entry[1] : entry \in index}
                 IN  /\ DOMAIN paths_from_hash' = DOMAIN paths_from_hash \cup hashes
                     /\ \A entry \in index : paths_from_hash'[entry[1]] = entry[2]
                     /\ \A h \in DOMAIN paths_from_hash \ hashes :
                            paths_from_hash'[h] = paths_from_hash[h]
            ELSE paths_from_hash' = paths_from_hash]_vars

\* C14 witness: d1 was loaded and d2 after it; the hash both contain has its
\* path in d2, the hash only d1 contains has kept its path in d1
C14_Witness ==
    /\ pc = "running"
    /\ DOMAIN paths_from_hash = {"h1", "h2"}
    /\ paths_from_hash["h1"] = <<"d2", <<"a", "mp4">>>>
    /\ paths_from_hash["h2"] = <<"d1", <<"b", "webm">>>>

====
